---- MODULE Spec2Model ----
(***************************************************************************)
(* A model of package lmdbstore (src/lmdbstore.go): NewLmdb, the "updater" *)
(* goroutine that runs every update transaction handed to it over          *)
(* updateWorkerChan, the Db methods UpdateTxn / Put / Del / Drop that hand *)
(* transactions to it, LmdbEnv.Close, the read methods Db.Get and          *)
(* Db.GetAndMarshal, and the lookups LmdbEnv.GetSingleDatabase and         *)
(* LmdbEnv.GetDatabase.                                                    *)
(*                                                                         *)
(* Go channel semantics used by the model.  updateWorkerChan and every     *)
(* per-call reply channel are unbuffered.  A goroutine that executes a     *)
(* send on an unbuffered channel with no receiver ready is parked in the   *)
(* channel's queue of waiting senders, and a receive takes the sender that *)
(* has waited longest (sendq).  A send or a receive on a nil channel       *)
(* blocks forever, and a select case on a nil channel is never ready.      *)
(*                                                                         *)
(* The lmdb engine is modelled by its contract: a write transaction works  *)
(* on a private copy of the environment, which replaces the environment    *)
(* on commit and is thrown away on abort; Env.Update / Env.UpdateLocked    *)
(* begin a write transaction, run the TxnOp, abort when it returns an      *)
(* error and commit otherwise.  The engine is taken to be healthy: the    *)
(* only errors it returns are the ones its arguments call for (a key of    *)
(* length zero, a key that is absent), besides the failures of the         *)
(* environment setup and of CreateDBI in NewLmdb.  Env.View begins a read  *)
(* transaction on the calling goroutine; it sees the contents committed    *)
(* when it begins, waits for no writer, and the environment is taken to    *)
(* have a reader slot free for it.                                         *)
(***************************************************************************)
EXTENDS Integers, Sequences, FiniteSets, TLC

(* ------------------------------- bounds -------------------------------- *)

\* number of goroutines that use the handles NewLmdb returned; each makes
\* one call, of a write method of a Db or of Close, and they are numbered in
\* the order in which they enter their calls
NumCallers == 2

\* keys 1..NumKeys are ordinary keys; key 0 is the zero-length key
NumKeys == 2

(* ------------------------------ constants ------------------------------ *)

Callers == 1 .. NumCallers

\* the database names configurations are written with
Names == { "a", "b" }

\* the values of LmdbEnvConfig.Databases the model starts from: no entry,
\* one entry, two entries of one name, two entries of two names
Configs == { <<>>, << "a" >>, << "a", "a" >>, << "a", "b" >> }

EmptyKey == 0

Keys == 0 .. NumKeys

\* the zero value of a channel field that no statement assigns
NilChan == "nil"

\* error values; Nil is Go's nil error
Nil == "nil"

ErrBadValSize == "MDB_BAD_VALSIZE"

ErrNotFound == "MDB_NOTFOUND"

ErrEncode == "marshal error"

ErrUser == "txn op error"

ErrNoDatabases == "no databases is setup"

ErrEnv == "env error"

ErrCreate == "error creating database"

\* execution contexts that can invoke the engine's write primitive
Worker == "updater"

NewLmdbCtx == "NewLmdb"

\* the values of a Marshal / Unmarshal field: nil, the msgpack pair of
\* DefaultLmdbConfig, a pair the application wrote for the environment, a
\* pair the application wrote for one database
NilFunc == "nil func"

Msgpack == "msgpack"

EnvCustom == "custom (LmdbEnvConfig)"

DbCustom == "custom (DbConfig)"

\* msgpack's header byte of an array of one element (fixarray, 0x91)
FixArray1 == 145

(* ------------------------------ pure parts ----------------------------- *)

\* a logical database with no key
EmptyDb == <<>>

\* The values a caller can pass to Put, built around the caller's tag t:
\*   "raw": the byte slice []byte{t}, stored unmodified
\*   "enc": a struct with the one field t, which the marshal function encodes
\*   "bad": a value the marshal function fails on
ValueKinds == { "raw", "enc", "bad" }

\* Db.marshal applied to a non-[]byte value (msgpack.MarshalAsArray)
Marshal(kind, t) ==
    IF kind = "bad" THEN [b |-> <<>>, err |-> ErrEncode]
    ELSE [b |-> <<FixArray1, t>>, err |-> Nil]

\* txn.Put(dbi, key, b, 0) on the transaction's copy env: flags 0, so a
\* value already stored at key is replaced
TxnPutNoOverwrite(env, db, key, b) ==
    IF key = EmptyKey THEN [env |-> env, err |-> ErrBadValSize]
    ELSE IF key \in DOMAIN env[db] THEN [env |-> env, err |-> "MDB_KEYEXIST"]
    ELSE [env |-> [env EXCEPT ![db] =
                      [k \in (DOMAIN env[db]) \cup {key} |-> IF k = key THEN b ELSE env[db][k]]],
          err |-> Nil]
TxnPut(env, db, key, b) ==
    IF key = EmptyKey THEN [env |-> env, err |-> ErrBadValSize]
    ELSE [env |-> [env EXCEPT ![db] =
                      [k \in (DOMAIN env[db]) \cup {key} |-> IF k = key THEN b ELSE env[db][k]]],
          err |-> Nil]

\* txn.Del(dbi, key, zeroLengthBytes)
TxnDel(env, db, key) ==
    IF key = EmptyKey THEN [env |-> env, err |-> ErrBadValSize]
    ELSE IF key \notin DOMAIN env[db] THEN [env |-> env, err |-> ErrNotFound]
    ELSE [env |-> [env EXCEPT ![db] = [k \in (DOMAIN env[db]) \ {key} |-> env[db][k]]],
          err |-> Nil]

\* txn.Drop(dbi, false): empties the database, keeps the handle
TxnDropNothing(env, db) == [env |-> env, err |-> Nil]
TxnDropAll(env, db) == [env |-> [n \in DOMAIN env |-> EmptyDb], err |-> Nil]
TxnDrop(env, db) == [env |-> [env EXCEPT ![db] = EmptyDb], err |-> Nil]

\* the TxnOp that Db.Put builds
PutOp(env, db, key, kind, t) ==
    IF kind = "raw" THEN TxnPut(env, db, key, <<t>>)
    ELSE LET m == Marshal(kind, t)
         IN  IF m.err # Nil THEN [env |-> env, err |-> m.err]
             ELSE TxnPut(env, db, key, m.b)

\* a caller-written TxnOp given to UpdateTxn: it stores []byte{t} at key and
\* then returns an error of its own
UserOp(env, db, key, t) ==
    LET p == TxnPut(env, db, key, <<t>>)
    IN  IF p.err # Nil THEN p ELSE [env |-> p.env, err |-> ErrUser]

\* the transaction function of a request run on the transaction's copy
RunOp(op, env) ==
    CASE op.kind = "put"  -> PutOp(env, op.db, op.key, op.val, op.tag)
      [] op.kind = "del"  -> TxnDel(env, op.db, op.key)
      [] op.kind = "drop" -> TxnDrop(env, op.db)
      [] op.kind = "txn"  -> UserOp(env, op.db, op.key, op.tag)

\* how a write transaction ends: commit installs the copy, abort drops it
TxnFinishNoAbort(env, copy, err) == copy
TxnFinishNoCommit(env, copy, err) == env
TxnFinish(env, copy, err) == IF err = Nil THEN copy ELSE env

\* what the updater sends on the request's reply channel
ReplyAlwaysNil(err) == Nil
ReplyValue(err) == err

\* the bytes a Put that succeeds leaves at its key
StoredBytes(o) == IF o.val = "raw" THEN << o.tag >> ELSE Marshal(o.val, o.tag).b

\* make(chan error) in UpdateTxn: a channel of the call's own
MakeRes(c) == c

(* -------------------------------- state -------------------------------- *)

VARIABLES
    config,        \* LmdbEnvConfig.Databases: the sequence of configured names
    initPc,        \* position of the goroutine that runs NewLmdb
    createIdx,     \* index of the config entry the creation loop is at
    newErr,        \* the error NewLmdb returns (Nil with a handle)
    envState,      \* the lmdb.Env: "none", "open" or "closed"
    databases,     \* keys of LmdbEnv.databases (one Db per name)
    store,         \* committed contents of the environment, per database name
    workerStarted, \* the updater goroutine exists
    wpc,           \* position of the updater goroutine
    cur,           \* the *dbOp the updater took from updateWorkerChan
    txnCopy,       \* the open write transaction's private copy
    txnErr,        \* the error the transaction function returned
    writeTxns,     \* write transactions that are open, with the context that began them
    sendq,         \* callers parked in a send on updateWorkerChan, oldest first
    cpc,           \* position of each caller inside UpdateTxn or Close
    op,            \* the request each caller builds
    result,        \* what UpdateTxn returned to each caller
    nextTag,       \* the next sequence number a caller tags its call with
    sentAt,        \* per call, the place of its send in the order of sends (0: none)
    begunAt,       \* per call, the place of its transaction's begin among begins and ends
    endedAt,       \* per call, the place of its transaction's end among begins and ends
    outcome,       \* per call, the error its own transaction ended with
    preStore,      \* the committed contents when the updater took the current request
    envMarshal,    \* LmdbEnvConfig.Marshal / Unmarshal
    dbCfgMarshal,  \* DbConfig.Marshal / Unmarshal of each entry of config.Databases
    dbMarshal      \* Db.marshal / unmarshal of the handle of each database

vars == << config, initPc, createIdx, newErr, envState, databases, store, workerStarted,
           wpc, cur, txnCopy, txnErr, writeTxns, sendq, cpc, op, result, nextTag,
           sentAt, begunAt, endedAt, outcome, preStore,
           envMarshal, dbCfgMarshal, dbMarshal >>

marshalVars == << envMarshal, dbCfgMarshal, dbMarshal >>

initVars == << config, initPc, createIdx, newErr, envState, databases, marshalVars >>

workerVars == << wpc, cur, txnCopy, txnErr >>

callerVars == << cpc, op, result, nextTag >>

logVars == << sentAt, begunAt, endedAt, outcome, preStore >>

\* the place the next send takes in the order of sends
NextSend == Cardinality({ c \in Callers : sentAt[c] # 0 }) + 1

\* the place the next begin or end of a transaction takes in their order
NextExec ==
    Cardinality({ c \in Callers : begunAt[c] # 0 })
    + Cardinality({ c \in Callers : endedAt[c] # 0 }) + 1

\* no request
NoOp == [call |-> 0, kind |-> "none", db |-> "", key |-> 0, val |-> "raw", tag |-> 0, res |-> 0]

\* a caller that has not got a result
NoResult == "pending"

\* LmdbEnv.quitChan: NewLmdb's composite literal does not set it and no
\* statement assigns it
quitChan == NilChan

\* the state at the entry of NewLmdb, whatever the configuration and the
\* contents of the environment at config.OpenPath
Start ==
    /\ initPc = "check"
    /\ createIdx = 1
    /\ newErr = Nil
    /\ envState = "none"
    /\ databases = {}
    /\ dbMarshal = [n \in Names |-> NilFunc]
    /\ workerStarted = FALSE
    /\ wpc = "none"
    /\ cur = NoOp
    /\ txnCopy = [n \in Names |-> EmptyDb]
    /\ txnErr = Nil
    /\ writeTxns = {}
    /\ sendq = <<>>
    /\ cpc = [c \in Callers |-> "idle"]
    /\ op = [c \in Callers |-> NoOp]
    /\ result = [c \in Callers |-> NoResult]
    /\ nextTag = 1
    /\ sentAt = [c \in Callers |-> 0]
    /\ begunAt = [c \in Callers |-> 0]
    /\ endedAt = [c \in Callers |-> 0]
    /\ outcome = [c \in Callers |-> NoResult]
    /\ preStore = [n \in Names |-> EmptyDb]

\* NewLmdb on a new environment, with the encoding functions of
\* DefaultLmdbConfig and none in the DbConfig entries
Init ==
    /\ config \in Configs
    /\ store = [n \in Names |-> EmptyDb]
    /\ envMarshal = Msgpack
    /\ dbCfgMarshal = [i \in 1 .. Len(config) |-> NilFunc]
    /\ Start

(* ------------------------------- NewLmdb ------------------------------- *)

\* len(config.Databases) < 1
NoDatabasesNever(cfg) == FALSE
NoDatabases(cfg) == Len(cfg) < 1

\* if len(config.Databases) < 1 { return nil, errors.New(...) }
NewLmdbCheck ==
    /\ initPc = "check"
    /\ IF NoDatabases(config)
       THEN initPc' = "failed" /\ newErr' = ErrNoDatabases
       ELSE initPc' = "open" /\ newErr' = newErr
    /\ UNCHANGED << config, createIdx, envState, databases, marshalVars, store, workerStarted,
                    workerVars, writeTxns, sendq, callerVars, logVars >>

\* lmdb.NewEnv, SetMapSize, SetMaxDBs, SetMaxReaders, Open: any may fail
NewLmdbOpen ==
    /\ initPc = "open"
    /\ \E ok \in BOOLEAN :
          IF ok
          THEN initPc' = "create" /\ envState' = "open" /\ newErr' = newErr
          ELSE initPc' = "failed" /\ envState' = envState /\ newErr' = ErrEnv
    /\ UNCHANGED << config, createIdx, databases, marshalVars, store, workerStarted,
                    workerVars, writeTxns, sendq, callerVars, logVars >>

\* db := &Db{..., marshal: lmdbHandler.marshal, unmarshal: lmdbHandler.unmarshal}
\* with lmdbHandler.marshal = config.Marshal: the functions of the handle
\* of a database, given those of LmdbEnvConfig and of its DbConfig
NewDbMarshal(env, dbc) == env

\* lmdbEnv.Update(...) of the creation loop begins its write transaction on
\* the goroutine that runs NewLmdb
CreateBegin ==
    /\ initPc = "create"
    /\ createIdx <= Len(config)
    /\ writeTxns' = writeTxns \cup { [ctx |-> NewLmdbCtx, call |-> 0] }
    /\ initPc' = "creating"
    /\ UNCHANGED << config, createIdx, newErr, envState, databases, marshalVars, store,
                    workerStarted, workerVars, sendq, callerVars, logVars >>

\* txn.CreateDBI(dbConfig.DbName) and the end of that transaction; on an
\* error NewLmdb returns it, otherwise the Db is put in the map
CreateEnd ==
    /\ initPc = "creating"
    /\ writeTxns' = writeTxns \ { [ctx |-> NewLmdbCtx, call |-> 0] }
    /\ \E ok \in BOOLEAN :
          IF ok
          THEN /\ databases' = databases \cup { config[createIdx] }
               /\ dbMarshal' = [dbMarshal EXCEPT ![config[createIdx]] =
                                   NewDbMarshal(envMarshal, dbCfgMarshal[createIdx])]
               /\ createIdx' = createIdx + 1
               /\ initPc' = "create"
               /\ newErr' = newErr
          ELSE /\ databases' = databases
               /\ dbMarshal' = dbMarshal
               /\ createIdx' = createIdx
               /\ initPc' = "failed"
               /\ newErr' = ErrCreate
    /\ UNCHANGED << config, envState, envMarshal, dbCfgMarshal, store, workerStarted,
                    workerVars, sendq, callerVars, logVars >>

\* the creation loop is over
SpawnReadyEarly == initPc = "creating"
SpawnReady == initPc = "create" /\ createIdx > Len(config)

\* go func() { ... }() and return &lmdbHandler, nil
SpawnWorker ==
    /\ SpawnReady
    /\ workerStarted' = TRUE
    /\ wpc' = "select"
    /\ initPc' = "returned"
    /\ UNCHANGED << config, createIdx, newErr, envState, databases, marshalVars, store,
                    cur, txnCopy, txnErr, writeTxns, sendq, callerVars, logVars >>

(* -------------------- Db.UpdateTxn, Put, Del, Drop --------------------- *)

\* the ordinary keys
RealKeys == Keys \ {EmptyKey}

\* the key the caller-written transaction function stores before it fails
UserKey == 1

\* the requests a caller can make on the handles of the environment:
\* Put(key, value), Put with the zero-length key, Del(key), Drop() and
\* UpdateTxn(op) with an op of its own
Requests ==
    [kind : {"put"}, db : databases, key : RealKeys, val : ValueKinds]
    \cup [kind : {"put"}, db : databases, key : {EmptyKey}, val : {"raw"}]
    \cup [kind : {"del"}, db : databases, key : RealKeys, val : {"raw"}]
    \cup [kind : {"txn"}, db : databases, key : {UserKey}, val : {"raw"}]
    \cup [kind : {"drop"}, db : databases, key : {EmptyKey}, val : {"raw"}]

\* a caller enters Put / Del / Drop / UpdateTxn with its arguments evaluated
\* (the value carries the sequence number the caller drew, which is also the
\* number the goroutine is known by) and executes res := make(chan error)
Call(c) ==
    /\ initPc = "returned"
    /\ cpc[c] = "idle"
    /\ c = nextTag
    /\ \E r \in Requests :
          op' = [op EXCEPT ![c] = [call |-> c, kind |-> r.kind, db |-> r.db, key |-> r.key,
                                   val |-> r.val, tag |-> nextTag, res |-> MakeRes(c)]]
    /\ nextTag' = nextTag + 1
    /\ cpc' = [cpc EXCEPT ![c] = "send"]
    /\ UNCHANGED << initVars, store, workerStarted, workerVars, writeTxns, sendq,
                    result, logVars >>

\* s.updateWorkerChan <- &dbOp{op, res}: the send takes its place among the
\* senders waiting on the unbuffered channel
Send(c) ==
    /\ cpc[c] = "send"
    /\ sendq' = Append(sendq, c)
    /\ sentAt' = [sentAt EXCEPT ![c] = NextSend]
    /\ cpc' = [cpc EXCEPT ![c] = "parked"]
    /\ UNCHANGED << initVars, store, workerStarted, workerVars, writeTxns,
                    op, result, nextTag, begunAt, endedAt, outcome, preStore >>

(* ------------------------- the updater goroutine ----------------------- *)

\* a receive on updateWorkerChan takes the sender that has waited longest
DequeueNewest(q) == [who |-> q[Len(q)], rest |-> SubSeq(q, 1, Len(q) - 1)]
DequeueDropping(q) == [who |-> Head(q), rest |-> <<>>]
DequeueKeeping(q) == [who |-> Head(q), rest |-> q]
Dequeue(q) == [who |-> Head(q), rest |-> Tail(q)]

\* the updater is at the select statement of its loop
WorkerAtSelectOrRunning == wpc \in {"select", "run"}
WorkerAtSelectOrInnerSend == wpc \in {"select", "innerSend"}
WorkerAtSelect == wpc = "select"

\* the cases of the select statement that can proceed, each with the
\* goroutine at the other end of the channel
ReadyCases ==
    (IF sendq # <<>> THEN { [case |-> "op", who |-> Dequeue(sendq).who] } ELSE {})
    \cup { [case |-> "quit", who |-> c] :
              c \in { d \in Callers : quitChan # NilChan /\ cpc[d] = "closing" } }

\* where the loop goes after it has sent the reply of a transaction
AfterReplyStopOnError(err) == IF err = Nil THEN "select" ELSE "stopped"
AfterReply(err) == "select"

\* select { case op := <-updateWorkerChan: ... case <-quitChan: ... }
\*   op:   the request is taken and its sender goes on to <-res
\*   quit: Sync(true), Close(), UnlockOSThread(); the for loop goes on
WorkerSelect ==
    /\ workerStarted
    /\ WorkerAtSelect
    /\ \E rc \in ReadyCases :
          IF rc.case = "op"
          THEN /\ cur' = op[rc.who]
               /\ cpc' = [cpc EXCEPT ![rc.who] = "recv"]
               /\ sendq' = Dequeue(sendq).rest
               /\ wpc' = "begin"
               /\ preStore' = store
               /\ UNCHANGED envState
          ELSE /\ envState' = "closed"
               /\ cpc' = [cpc EXCEPT ![rc.who] = "closed"]
               /\ wpc' = "select"
               /\ UNCHANGED << cur, sendq, preStore >>
    /\ UNCHANGED << config, initPc, createIdx, newErr, databases, marshalVars, store,
                    workerStarted, txnCopy, txnErr, writeTxns, op, result, nextTag,
                    sentAt, begunAt, endedAt, outcome >>

\* lmdbEnv.UpdateLocked(op.op) begins a write transaction on the updater and
\* calls the transaction function inside it
TxnBegin ==
    /\ wpc = "begin"
    /\ cur.kind # "reenter"
    /\ writeTxns' = writeTxns \cup { [ctx |-> Worker, call |-> cur.call] }
    /\ txnCopy' = RunOp(cur, store).env
    /\ txnErr' = RunOp(cur, store).err
    /\ begunAt' = [begunAt EXCEPT ![cur.call] = NextExec]
    /\ wpc' = "run"
    /\ UNCHANGED << initVars, store, workerStarted, cur, sendq,
                    callerVars, sentAt, endedAt, outcome, preStore >>

\* UpdateLocked aborts when the function returned an error, else commits
TxnEnd ==
    /\ wpc = "run"
    /\ store' = TxnFinish(store, txnCopy, txnErr)
    /\ writeTxns' = writeTxns \ { [ctx |-> Worker, call |-> cur.call] }
    /\ endedAt' = [endedAt EXCEPT ![cur.call] = NextExec]
    /\ outcome' = [outcome EXCEPT ![cur.call] = txnErr]
    /\ wpc' = "reply"
    /\ UNCHANGED << initVars, workerStarted, cur, txnCopy, txnErr, sendq,
                    callerVars, sentAt, begunAt, preStore >>

\* op.res <- err meets the caller's err := <-res; UpdateTxn returns err
Reply(c) ==
    /\ wpc = "reply"
    /\ cpc[c] = "recv"
    /\ op[c].res = cur.res
    /\ result' = [result EXCEPT ![c] = ReplyValue(txnErr)]
    /\ cpc' = [cpc EXCEPT ![c] = "done"]
    /\ wpc' = AfterReply(txnErr)
    /\ cur' = NoOp
    /\ UNCHANGED << initVars, store, workerStarted, txnCopy, txnErr, writeTxns, sendq,
                    op, nextTag, logVars >>

(* ----------------------------- LmdbEnv.Close --------------------------- *)

\* e.quitChan <- false: the caller starts the send
CloseCall(c) ==
    /\ initPc = "returned"
    /\ cpc[c] = "idle"
    /\ c = nextTag
    /\ nextTag' = nextTag + 1
    /\ cpc' = [cpc EXCEPT ![c] = "closing"]
    /\ UNCHANGED << initVars, store, workerStarted, workerVars, writeTxns, sendq,
                    op, result, logVars >>

(* ------------------------ Db.Get, Db.GetAndMarshal --------------------- *)

\* Go's copy(dst, src): the first min(len(dst), len(src)) bytes of src
\* replace those of dst, and the length of dst stays what it was
GoCopy(dst, src) ==
    [i \in 1 .. Len(dst) |-> IF i <= Len(src) THEN src[i] ELSE dst[i]]

\* the nil slice, and make([]byte, n)
NilBytes == <<>>

MakeBytes(n) == [i \in 1 .. n |-> 0]

ErrZeroLength == "zero length bytes from database"

ErrDecode == "unmarshal error"

\* txn.Get(dbi, key) on the committed contents env
TxnGet(env, db, key) ==
    IF key = EmptyKey THEN [b |-> NilBytes, err |-> ErrBadValSize]
    ELSE IF key \notin DOMAIN env[db] THEN [b |-> NilBytes, err |-> ErrNotFound]
    ELSE [b |-> env[db][key], err |-> Nil]

\* Db.unmarshal applied to the copied bytes (msgpack.UnmarshalAsArray into
\* a struct of one field): dest is the decoded field
Unmarshal(b) ==
    IF Len(b) = 2 /\ b[1] = FixArray1 THEN [dest |-> b[2], err |-> Nil]
    ELSE [dest |-> Nil, err |-> ErrDecode]

\* Db.Get: the named result b is nil when the View function runs, so
\* copy(b, bOri) has a destination of length zero
Get(env, db, key) ==
    LET g == TxnGet(env, db, key)
    IN  IF g.err # Nil THEN [b |-> NilBytes, err |-> g.err]
        ELSE [b |-> GoCopy(NilBytes, g.b), err |-> Nil]

\* Db.GetAndMarshal
GetAndMarshal(env, db, key) ==
    LET g == TxnGet(env, db, key)
    IN  IF g.err # Nil THEN [dest |-> Nil, err |-> g.err]
        ELSE IF Len(g.b) = 0 THEN [dest |-> Nil, err |-> ErrZeroLength]
        ELSE Unmarshal(GoCopy(MakeBytes(Len(g.b)), g.b))

\* what the function a read method passes to lmdbEnv.View produces
RunRead(o, env) ==
    IF o.kind = "get" THEN Get(env, o.db, o.key)
    ELSE GetAndMarshal(env, o.db, o.key)

\* the reads a caller can make on the handles of the environment
ReadRequests == [kind : {"get", "getm"}, db : databases, key : RealKeys]

\* the write transactions a read transaction has to wait for: the engine
\* gives a reader the last committed contents and never blocks it on a writer
ViewWaitsForWriters == writeTxns
ViewWaitsFor == {}

\* a caller enters Get / GetAndMarshal; lmdbEnv.View begins a read
\* transaction on the calling goroutine, which sees the contents committed
\* at that moment
ReadCall(c) ==
    /\ initPc = "returned"
    /\ cpc[c] = "idle"
    /\ c = nextTag
    /\ \E r \in ReadRequests :
          /\ op' = [op EXCEPT ![c] = [call |-> c, kind |-> r.kind, db |-> r.db, key |-> r.key,
                                      val |-> "raw", tag |-> nextTag, res |-> 0]]
          /\ outcome' = [outcome EXCEPT ![c] = RunRead(r, store)]
    /\ nextTag' = nextTag + 1
    /\ begunAt' = [begunAt EXCEPT ![c] = NextExec]
    /\ cpc' = [cpc EXCEPT ![c] = "view"]
    /\ UNCHANGED << initVars, store, workerStarted, workerVars, writeTxns, sendq,
                    result, sentAt, endedAt, preStore >>

\* the View function returns, the read transaction ends and the method
\* returns what the function produced
ReadReturn(c) ==
    /\ cpc[c] = "view"
    /\ ViewWaitsFor = {}
    /\ result' = [result EXCEPT ![c] = outcome[c]]
    /\ cpc' = [cpc EXCEPT ![c] = "read"]
    /\ UNCHANGED << initVars, store, workerStarted, workerVars, writeTxns, sendq,
                    op, nextTag, logVars >>

(* ------------- LmdbEnv.GetSingleDatabase, LmdbEnv.GetDatabase ---------- *)

ErrNotSingle == "number of databases configured LmdbEnv is not 1"

\* GetSingleDatabase on the map dbs, whose keys are the database names (a
\* handle is known by the name it was made for)
GetSingleDatabase(dbs) ==
    IF Cardinality(dbs) # 1 THEN [db |-> Nil, err |-> ErrNotSingle]
    ELSE [db |-> CHOOSE n \in dbs : TRUE, err |-> Nil]

\* GetDatabase(dbName) on the map dbs: nil for a name that is not a key
GetDatabase(dbs, dbName) == IF dbName \in dbs THEN dbName ELSE Nil

\* a caller calls GetSingleDatabase on the handle NewLmdb returned
GetSingleDatabaseCall(c) ==
    /\ initPc = "returned"
    /\ cpc[c] = "idle"
    /\ c = nextTag
    /\ op' = [op EXCEPT ![c] = [NoOp EXCEPT !.call = c, !.kind = "single", !.tag = nextTag]]
    /\ result' = [result EXCEPT ![c] = GetSingleDatabase(databases)]
    /\ nextTag' = nextTag + 1
    /\ cpc' = [cpc EXCEPT ![c] = "got"]
    /\ UNCHANGED << initVars, store, workerStarted, workerVars, writeTxns, sendq, logVars >>

\* a caller calls GetDatabase(dbName)
GetDatabaseCall(c) ==
    /\ initPc = "returned"
    /\ cpc[c] = "idle"
    /\ c = nextTag
    /\ \E n \in Names :
          /\ op' = [op EXCEPT ![c] = [NoOp EXCEPT !.call = c, !.kind = "lookup", !.db = n,
                                                  !.tag = nextTag]]
          /\ result' = [result EXCEPT ![c] = GetDatabase(databases, n)]
    /\ nextTag' = nextTag + 1
    /\ cpc' = [cpc EXCEPT ![c] = "got"]
    /\ UNCHANGED << initVars, store, workerStarted, workerVars, writeTxns, sendq, logVars >>

(* ------------- a transaction function that submits a write ------------ *)

\* a caller enters UpdateTxn(op) with an op that itself calls a write method
\* (UpdateTxn, Put, Del or Drop) of a Db of the same environment
CallReentrant(c) ==
    /\ initPc = "returned"
    /\ cpc[c] = "idle"
    /\ c = nextTag
    /\ \E n \in databases :
          op' = [op EXCEPT ![c] = [call |-> c, kind |-> "reenter", db |-> n, key |-> UserKey,
                                   val |-> "raw", tag |-> nextTag, res |-> MakeRes(c)]]
    /\ nextTag' = nextTag + 1
    /\ cpc' = [cpc EXCEPT ![c] = "send"]
    /\ UNCHANGED << initVars, store, workerStarted, workerVars, writeTxns, sendq,
                    result, logVars >>

\* lmdbEnv.UpdateLocked(op.op) begins the write transaction and calls the
\* function, which gets to s.updateWorkerChan <- &dbOp{...} of the inner
\* call on the updater goroutine itself: the updater is parked in that send
\* (the only goroutine that receives from the channel is the updater)
TxnBeginReentrant ==
    /\ wpc = "begin"
    /\ cur.kind = "reenter"
    /\ writeTxns' = writeTxns \cup { [ctx |-> Worker, call |-> cur.call] }
    /\ txnCopy' = store
    /\ txnErr' = Nil
    /\ begunAt' = [begunAt EXCEPT ![cur.call] = NextExec]
    /\ wpc' = "innerSend"
    /\ UNCHANGED << initVars, store, workerStarted, cur, sendq,
                    callerVars, sentAt, endedAt, outcome, preStore >>

(* ---------------------------- specifications --------------------------- *)

Next ==
    \/ NewLmdbCheck
    \/ NewLmdbOpen
    \/ CreateBegin
    \/ CreateEnd
    \/ SpawnWorker
    \/ \E c \in Callers : Call(c)
    \/ \E c \in Callers : Send(c)
    \/ WorkerSelect
    \/ TxnBegin
    \/ TxnEnd
    \/ \E c \in Callers : Reply(c)
    \/ \E c \in Callers : CloseCall(c)

Spec == Init /\ [][Next]_vars

\* Go schedules every runnable goroutine: no step that stays possible is
\* put off forever.  Entering a call (Call, CloseCall) is the application's
\* choice and has no fairness.
FairSpec ==
    /\ Spec
    /\ WF_vars(NewLmdbCheck) /\ WF_vars(NewLmdbOpen) /\ WF_vars(CreateBegin)
    /\ WF_vars(CreateEnd) /\ WF_vars(SpawnWorker)
    /\ \A c \in Callers : WF_vars(Send(c)) /\ WF_vars(Reply(c))
    /\ WF_vars(WorkerSelect) /\ WF_vars(TxnBegin) /\ WF_vars(TxnEnd)

\* what an environment file left by an earlier run of the program can hold
\* in a database: nothing, or an encoded value at every ordinary key
Filled == [k \in RealKeys |-> << FixArray1, 0 >>]

StoredContents == { EmptyDb, Filled }

\* NewLmdb on a configuration of one logical database, as DefaultLmdbConfig
\* is, at a path where an earlier run may have left an environment
InitExisting ==
    /\ config = << "a" >>
    /\ \E d \in StoredContents : store = [n \in Names |-> IF n = "a" THEN d ELSE EmptyDb]
    /\ envMarshal = Msgpack
    /\ dbCfgMarshal = [i \in 1 .. Len(config) |-> NilFunc]
    /\ Start

NextRead ==
    \/ Next
    \/ \E c \in Callers : ReadCall(c)
    \/ \E c \in Callers : ReadReturn(c)

\* the writers of Spec together with callers of Get and GetAndMarshal
ReadSpec == InitExisting /\ [][NextRead]_vars

\* NewLmdb on any configuration of databases and of encoding functions: in
\* LmdbEnvConfig nil, the msgpack pair or a pair of the application, in each
\* DbConfig nil or a pair of the application
InitSetup ==
    /\ config \in Configs
    /\ store = [n \in Names |-> EmptyDb]
    /\ envMarshal \in { NilFunc, Msgpack, EnvCustom }
    /\ dbCfgMarshal \in [1 .. Len(config) -> { NilFunc, DbCustom }]
    /\ Start

NextSetup ==
    \/ NewLmdbCheck
    \/ NewLmdbOpen
    \/ CreateBegin
    \/ CreateEnd
    \/ SpawnWorker
    \/ \E c \in Callers : GetSingleDatabaseCall(c)
    \/ \E c \in Callers : GetDatabaseCall(c)

\* the construction of the environment and the lookups of its handles
SetupSpec == InitSetup /\ [][NextSetup]_vars

NextReentry ==
    \/ Next
    \/ \E c \in Callers : CallReentrant(c)
    \/ TxnBeginReentrant

\* the writers of Spec together with callers whose transaction function
\* submits a write
ReentrySpec == InitExisting /\ [][NextReentry]_vars

(* -------------------------------- claims ------------------------------- *)

\* the transaction of caller c has begun, has ended
Begun(c) == begunAt[c] # 0

Ended(c) == endedAt[c] # 0

\* a Put whose value encodes and whose key the engine accepts
GoodPut(o) == o.kind = "put" /\ o.key \in RealKeys /\ o.val # "bad"

\* caller a's send was queued on updateWorkerChan before caller b's
SentBefore(a, b) == sentAt[a] # 0 /\ sentAt[b] # 0 /\ sentAt[a] < sentAt[b]

\* C1: in every reachable state at most one write transaction is open on the
\* environment, whatever the number of callers inside Put, Del, Drop and
\* UpdateTxn.
C1_SingleWriter == Cardinality(writeTxns) <= 1

\* C1 witness: the updater has a write transaction open while another caller
\* is waiting in its send on updateWorkerChan.
C1_Witness == writeTxns # {} /\ sendq # <<>>

\* C2 as claimed: every write transaction, those that create the databases
\* in NewLmdb included, is invoked by the updater goroutine.
C2_AllOnWorker == \A t \in writeTxns : t.ctx = Worker

\* C2 amended: every write transaction of a request made through UpdateTxn,
\* Put, Del or Drop is invoked by the updater goroutine; the transactions
\* that create the databases are invoked by the goroutine that runs NewLmdb,
\* inside the creation loop and before the updater goroutine is started.
C2_WorkerAfterCreation ==
    \A t \in writeTxns :
        /\ t.call \in Callers => t.ctx = Worker /\ workerStarted
        /\ t.call \notin Callers =>
              t.ctx = NewLmdbCtx /\ ~workerStarted /\ initPc = "creating"

\* C2 witness: a request's transaction is open on the updater, in an
\* environment whose databases NewLmdb created.
C2_Witness ==
    /\ \E t \in writeTxns : t.ctx = Worker /\ t.call \in Callers
    /\ databases # {}

\* C3: requests are executed in the order in which their sends were queued
\* on updateWorkerChan, one at a time: when the transaction of a later
\* request has begun, the transaction of every earlier one has ended, and
\* ended before that begin.
C3_Fifo ==
    \A a, b \in Callers :
        SentBefore(a, b) /\ Begun(b) => Ended(a) /\ endedAt[a] < begunAt[b]

\* C3 witness: two calls were in progress together (the one that entered
\* second queued its send first) and both transactions have run.
C3_Witness ==
    \E a, b \in Callers :
        a < b /\ SentBefore(b, a) /\ Ended(a) /\ Ended(b)

\* C4: a call has returned only if its own transaction has ended, and what
\* it returned is the error that transaction ended with.
C4_OwnResult ==
    \A c \in Callers :
        cpc[c] = "done" => Ended(c) /\ result[c] = outcome[c]

\* C4 witness: two calls have returned different results, one nil and one
\* an error.
C4_Witness ==
    \E a, b \in Callers :
        cpc[a] = "done" /\ cpc[b] = "done" /\ result[a] = Nil /\ result[b] # Nil

\* the callers that have entered a call of Put, Del, Drop or UpdateTxn
Entered == { c \in Callers : op[c] # NoOp }

\* every caller that has entered a call made a Put that can succeed, all on
\* one Db, on keys that differ, and every call has returned
AllDistinctPutsDone ==
    /\ Entered # {}
    /\ \A c \in Entered : cpc[c] = "done" /\ GoodPut(op[c])
    /\ \A a, b \in Entered : op[a].db = op[b].db /\ (a # b => op[a].key # op[b].key)

\* C5: when N callers have each Put a distinct key on the same Db and all
\* the calls have returned, every call returned nil and every key holds the
\* bytes of the value its caller wrote.
C5_NoWriteLost ==
    AllDistinctPutsDone =>
        \A c \in Entered :
            /\ result[c] = Nil
            /\ op[c].key \in DOMAIN store[op[c].db]
            /\ store[op[c].db][op[c].key] = StoredBytes(op[c])

\* C5 witness: every caller made such a Put, the Puts were in progress
\* together and all have returned.
C5_Witness ==
    /\ AllDistinctPutsDone
    /\ Entered = Callers
    /\ \E a, b \in Callers : a < b /\ SentBefore(b, a)

\* callers a and b are the only ones that have entered a write call, both
\* calls are Puts that can succeed on the same key of the same Db, and both have
\* returned
TwoPutsSameKeyDone(a, b) ==
    /\ a # b
    /\ cpc[a] = "done" /\ cpc[b] = "done"
    /\ GoodPut(op[a]) /\ GoodPut(op[b])
    /\ op[a].db = op[b].db /\ op[a].key = op[b].key
    /\ Entered = {a, b}

\* C6 as claimed: the value stored after two Puts on one key have returned
\* is that of the call with the later sequence number.
C6_LastTagWins ==
    \A a, b \in Callers :
        TwoPutsSameKeyDone(a, b) /\ op[a].tag < op[b].tag =>
            store[op[b].db][op[b].key] = StoredBytes(op[b])

\* C6 amended: both Puts return nil and the value stored after both have
\* returned is that of the call whose send was queued on updateWorkerChan
\* last, whatever sequence numbers the callers drew before calling.
C6_LastSentWins ==
    \A a, b \in Callers :
        TwoPutsSameKeyDone(a, b) /\ SentBefore(a, b) =>
            /\ result[a] = Nil /\ result[b] = Nil
            /\ store[op[b].db][op[b].key] = StoredBytes(op[b])

\* C6 witness: the call with the later sequence number queued its send
\* first, and the value of the other call is the one stored.
C6_Witness ==
    \E a, b \in Callers :
        /\ TwoPutsSameKeyDone(a, b) /\ SentBefore(a, b) /\ op[b].tag < op[a].tag
        /\ store[op[b].db][op[b].key] = StoredBytes(op[b])

\* C7: when a call returns, with an error or with nil, it returns the error
\* of its own transaction, the updater is back at its select statement, and
\* the step drops no waiting sender and changes no database.
C7_ErrorDoesNotStop ==
    [][ \A c \in Callers :
            cpc[c] = "recv" /\ cpc'[c] = "done" =>
                /\ result'[c] = outcome[c]
                /\ wpc' = "select"
                /\ sendq' = sendq
                /\ store' = store ]_vars

\* C7 witness: a call has returned an error and a call whose send was
\* queued after it has returned nil.
C7_Witness ==
    \E a, b \in Callers :
        /\ SentBefore(a, b)
        /\ cpc[a] = "done" /\ result[a] # Nil
        /\ cpc[b] = "done" /\ result[b] = Nil

\* C8: when the transaction of a request has ended with an error, every
\* database holds what it held when the updater took the request; when the
\* transaction of a Put has ended with nil, the key holds the new bytes.
C8_AllOrNothing ==
    wpc = "reply" =>
        IF txnErr # Nil
        THEN store = preStore
        ELSE cur.kind = "put" =>
                /\ cur.key \in DOMAIN store[cur.db]
                /\ store[cur.db][cur.key] = StoredBytes(cur)

\* C8 witness: a transaction function wrote a key and then returned an
\* error, and the write is not in the database.
C8_Witness ==
    /\ wpc = "reply"
    /\ txnErr = ErrUser
    /\ txnCopy # store

\* C9: a call of Close on the handle NewLmdb returned eventually returns.
C9_CloseReturns == \A c \in Callers : (cpc[c] = "closing") ~> (cpc[c] = "closed")

\* C10: once the updater has received the shutdown signal it takes no more
\* requests and runs no more transactions.  The signal is never received:
\* quitChan is nil, the quit case of the select is never ready, and no state
\* with a closed environment or a returned Close is reached, so the claim
\* has no reachable case.
C10_ShutdownNeverReceived ==
    envState # "closed" /\ \A c \in Callers : cpc[c] # "closed"

\* caller c is inside or has returned from Get or GetAndMarshal
Reading(c) == cpc[c] \in {"view", "read"}

\* C11: a read never waits on the updater: in every state in which a caller
\* is inside Get or GetAndMarshal (the updater idle, inside a transaction or
\* with senders waiting on updateWorkerChan, other reads in progress or not)
\* the step that ends the read and returns can be taken at once, and it is a
\* step of the caller that leaves the updater and the waiting senders as
\* they are.
C11_ReadsNeverWait ==
    \A c \in Callers : cpc[c] = "view" => ENABLED ReadReturn(c)

\* C11 witness: a read that began after the updater began a transaction has
\* returned while that transaction is still open.
C11_Witness ==
    \E a, b \in Callers :
        /\ cpc[a] = "read" /\ wpc = "run" /\ cur.call = b
        /\ begunAt[b] < begunAt[a]

\* C12: when a Put of key k has returned nil and no other write has been
\* made, a Get of k that starts then produces a nil error and the bytes
\* that the Put stored.
C12_GetRoundTrip ==
    [][ \A a, c \in Callers :
            /\ Entered = {a} /\ GoodPut(op[a]) /\ cpc[a] = "done" /\ result[a] = Nil
            /\ cpc[c] = "idle" /\ cpc'[c] = "view"
            /\ op'[c].kind = "get" /\ op'[c].db = op[a].db /\ op'[c].key = op[a].key
            => outcome'[c] = [b |-> StoredBytes(op[a]), err |-> Nil] ]_vars

\* C13: when a Drop has returned nil and no other write has been made, a
\* read of any key of that database that begins after the Drop's
\* transaction produces the not-found error; and a Put that can succeed,
\* made after the Drop on the same database, returns nil and its key holds
\* its bytes.
C13_DropThenUsable ==
    \A a, c \in Callers :
        op[a].kind = "drop" /\ cpc[a] = "done" /\ result[a] = Nil /\ Entered = {a, c}
        /\ a # c /\ op[c].db = op[a].db =>
            /\ Reading(c) /\ endedAt[a] < begunAt[c] => outcome[c].err = ErrNotFound
            /\ GoodPut(op[c]) /\ cpc[c] = "done" /\ SentBefore(a, c) =>
                  /\ result[c] = Nil
                  /\ op[c].key \in DOMAIN store[op[c].db]
                  /\ store[op[c].db][op[c].key] = StoredBytes(op[c])

\* C13 witness: the database held keys when the updater took the Drop, the
\* Drop has returned nil, and a Get that began afterwards has returned the
\* not-found error for one of those keys.
C13_Witness ==
    \E a, c \in Callers :
        /\ op[a].kind = "drop" /\ cpc[a] = "done" /\ result[a] = Nil
        /\ cpc[c] = "read" /\ op[c].kind = "get" /\ op[c].db = op[a].db
        /\ endedAt[a] < begunAt[c]
        /\ op[c].key \in DOMAIN preStore[op[a].db]
        /\ result[c].err = ErrNotFound

\* C14 as claimed: GetSingleDatabase returns the handle and a nil error
\* when config.Databases has exactly one entry, and an error when it has
\* none or more than one, entries that repeat a name included.
C14_SingleNeedsOneEntry ==
    \A c \in Callers :
        cpc[c] = "got" /\ op[c].kind = "single" =>
            IF Len(config) = 1
            THEN result[c] = [db |-> config[1], err |-> Nil]
            ELSE result[c].err # Nil

\* C15: when NewLmdb has failed it has returned an error and no handle (no
\* caller ever gets to call a method), the updater goroutine has not been
\* started and never is; with no database configured no environment is
\* made either.
C15_FailureStartsNothing ==
    /\ initPc = "failed" =>
          /\ newErr # Nil
          /\ ~workerStarted /\ wpc = "none"
          /\ \A c \in Callers : cpc[c] = "idle"
    /\ Len(config) < 1 =>
          /\ initPc \in {"check", "failed"}
          /\ envState = "none"
          /\ ~workerStarted

\* C15 witness: NewLmdb has failed at the creation of its second database,
\* after the environment was opened and the first database created.
C15_Witness ==
    /\ initPc = "failed" /\ newErr = ErrCreate
    /\ envState = "open" /\ databases # {}

\* the functions the claim gives a handle: those of the DbConfig if set,
\* otherwise those of LmdbEnvConfig if set, otherwise the msgpack pair
ByPrecedence(env, dbc) ==
    IF dbc # NilFunc THEN dbc ELSE IF env # NilFunc THEN env ELSE Msgpack

\* C16 as claimed: the handle of a database that config.Databases names
\* once holds the functions chosen by that precedence, from its creation on.
C16_MarshalByPrecedence ==
    \A i \in 1 .. Len(config) :
        /\ i < createIdx
        /\ \A j \in 1 .. Len(config) : config[j] = config[i] => j = i
        => dbMarshal[config[i]] = ByPrecedence(envMarshal, dbCfgMarshal[i])

\* C17: with goroutines scheduled fairly and transaction functions that
\* end and submit no write themselves, every call of Put, Del, Drop or
\* UpdateTxn that has been entered eventually returns, whatever other calls
\* are in progress and whatever errors earlier transactions ended with.
C17_WritesReturn ==
    \A c \in Callers : (cpc[c] = "send") ~> (cpc[c] = "done")

\* C17 witness: every caller has made a write call, the one that entered
\* first queued its send last, one transaction ended with an error, and
\* all the calls have returned.
C17_Witness ==
    /\ \A c \in Callers : cpc[c] = "done"
    /\ \E a \in Callers : result[a] # Nil
    /\ \E a, b \in Callers : a < b /\ SentBefore(b, a)

\* C18: a request is consumed exactly once: a step that begins the
\* transaction of call c is the first such step, made by the updater for
\* the request it took from c after c queued its send; a step that gives c
\* its result is the first such step and comes after that transaction has
\* ended; and c returns only with its transaction begun and ended.
C18_ExactlyOnce ==
    [][ \A c \in Callers :
            /\ begunAt'[c] # begunAt[c] =>
                  begunAt[c] = 0 /\ cur.call = c /\ sentAt[c] # 0 /\ wpc = "begin"
            /\ result'[c] # result[c] =>
                  result[c] = NoResult /\ Ended(c) /\ cpc[c] = "recv"
            /\ cpc[c] # "done" /\ cpc'[c] = "done" => Begun(c) /\ Ended(c) ]_vars

\* C18 witness: a Put and then a Del of the same key have both returned
\* nil: the Del found the key that the one execution of the Put stored.
C18_Witness ==
    \E a, b \in Callers :
        /\ GoodPut(op[a]) /\ op[b].kind = "del"
        /\ op[a].db = op[b].db /\ op[a].key = op[b].key
        /\ cpc[a] = "done" /\ cpc[b] = "done"
        /\ result[a] = Nil /\ result[b] = Nil

\* C19: when the transaction of a Put, Del or Drop through the handle of
\* one database has ended, every database of another name holds what it
\* held when the updater took the request; after a Put or Del of key k,
\* every other key of the same database is as it was, too.
C19_OthersUnchanged ==
    wpc = "reply" /\ cur.kind \in {"put", "del", "drop"} =>
        /\ \A n \in Names \ {cur.db} : store[n] = preStore[n]
        /\ cur.kind \in {"put", "del"} =>
              \A k \in Keys \ {cur.key} :
                  /\ k \in DOMAIN store[cur.db] <=> k \in DOMAIN preStore[cur.db]
                  /\ k \in DOMAIN store[cur.db] => store[cur.db][k] = preStore[cur.db][k]

\* C19 witness: a Drop of one database has committed while another
\* database holds a key.
C19_Witness ==
    /\ wpc = "reply" /\ cur.kind = "drop" /\ txnErr = Nil
    /\ \E n \in Names \ {cur.db} : store[n] # EmptyDb

\* C20: once the updater is inside the inner call that a transaction
\* function made, it stays there: the inner call does not return, the outer
\* call stays waiting for its reply, no transaction begins or ends, nothing
\* is committed, and no sender is taken from updateWorkerChan.
C20_ReentryBlocksUpdater ==
    [][ wpc = "innerSend" =>
            /\ wpc' = "innerSend"
            /\ cpc'[cur.call] = "recv" /\ result'[cur.call] = NoResult
            /\ begunAt' = begunAt /\ endedAt' = endedAt
            /\ store' = store
            /\ \A i \in 1 .. Len(sendq) : i <= Len(sendq') /\ sendq'[i] = sendq[i] ]_vars

\* C20 witness: the updater is inside the inner call, the caller of the
\* outer call is waiting for its reply, and a call made afterwards is
\* waiting in its send.
C20_Witness ==
    /\ wpc = "innerSend"
    /\ cpc[cur.call] = "recv"
    /\ \E c \in Callers : cpc[c] = "parked" /\ cur.call < c

====
